---- MODULE Spec2Model ----
(***************************************************************************)
(* State-machine model of the preview tool of File_Prepare_HF              *)
(* (src/Preview_Tool.py): configuration validation, cut-point planning     *)
(* with scene-change rejection and backoff, segment extraction, playlist   *)
(* filtering and gif-subset trimming, and grouping for the sheet.          *)
(*                                                                         *)
(* Units.  Fractional cut points are integers in thousandths (the code     *)
(* rounds them to 3 decimals).  Segment durations are integers in          *)
(* hundredths of a second (the code rounds them to 2 decimals).  The       *)
(* source duration and the absolute timestamps are whole seconds.          *)
(***************************************************************************)
EXTENDS Integers, Sequences, FiniteSets, TLC

VARIABLES
    cfg,                    \* the configuration bundle read by create_preview_tool
    env,                    \* behaviour of the external tools and of the random source in this run
    pc,                     \* position in create_preview_tool / process_video / generate_cut_points
    result,                 \* "none" while running, then "True", "False" or "raised"
    create,                 \* updated_create_flags: the formats still to be created
    artifacts,              \* formats whose file exists at its final output path
    temp_folder,            \* TRUE while the scratch directory exists
    calc_failed_counter,    \* generate_cut_points: calc_failed_counter
    segment_cut_duration,   \* generate_cut_points: segment_cut_duration (hundredths of a second)
    sorted_points,          \* generate_cut_points: sorted_points (thousandths)
    cut_points_seconds,     \* generate_cut_points: cut_points_seconds
    temp_files_webp,        \* generate_video_segments: temp_files_webp
    temp_files_preview,     \* generate_cut_points: temp_files_preview (meaningful when bound)
    preview_bound,          \* TRUE once temp_files_preview has been assigned
    concat_list,            \* lines of concat_list.txt
    concat_list_preview,    \* the full playlist
    concat_list_preview_gif,\* the gif-subset playlist
    concat_list_sheet,      \* the sheet playlist
    video_groups,           \* generate_and_run_ffmpeg_commands: video_groups (row batches)
    trim_in,                \* trim_concat_list_file applied alone: its inputs
    trim_out,               \* trim_concat_list_file applied alone: its outcome
    thumbs_in,              \* generate_thumbnails_sheet applied alone: its inputs
    thumbs_out,             \* generate_thumbnails_sheet applied alone: its outcome
    hist                    \* history of the run: what has happened so far

vars == << cfg, env, pc, result, create, artifacts, temp_folder, calc_failed_counter,
           segment_cut_duration, sorted_points, cut_points_seconds, temp_files_webp,
           temp_files_preview, preview_bound, concat_list, concat_list_preview,
           concat_list_preview_gif, concat_list_sheet, video_groups, trim_in, thumbs_in,
           thumbs_out, trim_out, hist >>

(***************************************************************************)
(* Program constants.                                                      *)
(***************************************************************************)
FailuresPerReduction == 50      \* calc_failed_counter % 50
DurationStep == 10              \* segment_cut_duration - 0.1
DurationFloor == 10             \* segment_cut_duration <= 0.1
DefaultSegmentDuration == 150   \* segment_duration if segment_duration else 1.5
required_duration == 150        \* required_duration = 150
MaxJitter == 20                 \* random.uniform(-0.02, 0.02)
StartLow == 20                  \* random.uniform(0.02, 0.08)
StartHigh == 80
EndLow == 975                   \* random.uniform(0.975, 0.99)
EndHigh == 990
MinTempFiles == 15              \* while len(temp_files_webp) < 15
Inf == 1000000                  \* float('inf'): above every cut-point number

(***************************************************************************)
(* Bounds of the model.                                                    *)
(***************************************************************************)
MaxJittered == 2        \* interior slots that get a non-zero jitter in one draw
MaxFaults == 1          \* calls of a flaky extractor that fail in one run
MaxTrimLen == 6         \* longest playlist given to trim_concat_list_file alone
MaxGrid == 5            \* largest grid width given to the validator alone
MaxCounted == 2         \* the history counts calls up to this number
MaxSegments == 33       \* largest segment count given to the validator alone
MaxFrames == 16         \* most frames given to generate_thumbnails_sheet alone
MaxColumns == 4         \* most columns given to generate_thumbnails_sheet alone

Formats == {"webp", "webm", "gif", "webp_sheet", "gif_sheet", "webm_sheet"}
SheetFormats == {"webp_sheet", "gif_sheet", "webm_sheet"}

(***************************************************************************)
(* Arithmetic helpers.                                                     *)
(***************************************************************************)
Min(a, b) == IF a <= b THEN a ELSE b

Max(a, b) == IF a >= b THEN a ELSE b

\* Python's round() of the non-negative rational num/den: to nearest, ties to even.
RoundDiv(num, den) ==
    LET q == num \div den
        r == num % den
    IN  IF 2 * r < den THEN q
        ELSE IF 2 * r > den THEN q + 1
        ELSE IF q % 2 = 0 THEN q ELSE q + 1

\* sorted(set): the elements of a finite set of integers in ascending order.
RECURSIVE InsertInt(_, _)
InsertInt(s, x) ==
    IF s = << >> THEN << x >>
    ELSE IF x < Head(s) THEN << x >> \o s
    ELSE << Head(s) >> \o InsertInt(Tail(s), x)

RECURSIVE SortedSeq(_)
SortedSeq(S) ==
    IF S = {} THEN << >>
    ELSE LET x == CHOOSE y \in S : TRUE
         IN  InsertInt(SortedSeq(S \ {x}), x)

Range(s) == { s[i] : i \in 1..Len(s) }

(***************************************************************************)
(* validate_preview_sheet_requirements.                                    *)
(***************************************************************************)
\* A validator that forgets the divisibility checks.
validate_without_divisibility(grid_width, num_of_segments, number_of_segments_gif, create_webp_sheet, create_gif_sheet, create_webm_sheet) ==
    IF number_of_segments_gif > num_of_segments \/ number_of_segments_gif <= 0 THEN FALSE
    ELSE IF ~(create_webp_sheet \/ create_gif_sheet \/ create_webm_sheet) THEN TRUE
    ELSE IF grid_width = 3 THEN ~(num_of_segments < 9) /\ ~(num_of_segments > 30)
    ELSE IF grid_width = 4 THEN ~(num_of_segments < 12) /\ ~(num_of_segments > 28)
    ELSE FALSE

validate_preview_sheet_requirements(grid_width, num_of_segments, number_of_segments_gif, create_webp_sheet, create_gif_sheet, create_webm_sheet) ==
    IF number_of_segments_gif > num_of_segments \/ number_of_segments_gif <= 0 THEN FALSE
    ELSE IF ~(create_webp_sheet \/ create_gif_sheet \/ create_webm_sheet) THEN TRUE
    ELSE IF grid_width = 3 THEN
        ~(num_of_segments % 3 # 0) /\ ~(num_of_segments < 9) /\ ~(num_of_segments > 30)
    ELSE IF grid_width = 4 THEN
        ~(num_of_segments % 4 # 0) /\ ~(num_of_segments < 12) /\ ~(num_of_segments > 28)
    ELSE FALSE

\* The call in create_preview_tool: the sheet flags are passed in the order webp, webm, gif.
is_valid(c) ==
    validate_preview_sheet_requirements(c.grid_width, c.num_of_segments, c.number_of_segments_gif,
                                        "webp_sheet" \in c.create, "webm_sheet" \in c.create,
                                        "gif_sheet" \in c.create)

(***************************************************************************)
(* Playlist entries.  A line of a concat list names a segment file: the    *)
(* extracted clip of a cut point ("seg"), its copy with the timestamp      *)
(* burned in ("timestamped"), or the text None ("none", cp 0) written when *)
(* overlay_timestamp returned None.                                        *)
(***************************************************************************)
Seg(i) == [cp |-> i, kind |-> "seg"]

Timestamped(i) == [cp |-> i, kind |-> "timestamped"]

NoneEntry == [cp |-> 0, kind |-> "none"]

\* trim_concat_list_file: extract_cut_point_number, the sort key of a line.
extract_cut_point_number(line) == IF line.kind = "none" THEN Inf ELSE line.cp

\* list.remove(x): the list without the first occurrence of x.
RECURSIVE RemoveFirst(_, _)
RemoveFirst(s, x) ==
    IF s = << >> THEN << >>
    ELSE IF Head(s) = x THEN Tail(s)
    ELSE << Head(s) >> \o RemoveFirst(Tail(s), x)

\* list.sort(key=...): a stable sort, by insertion.
RECURSIVE InsertByKey(_, _)
InsertByKey(s, x) ==
    IF s = << >> THEN << x >>
    ELSE IF extract_cut_point_number(x) < extract_cut_point_number(Head(s)) THEN << x >> \o s
    ELSE << Head(s) >> \o InsertByKey(Tail(s), x)

RECURSIVE SortLinesFrom(_, _, _)
SortLinesFrom(acc, s, i) ==
    IF i > Len(s) THEN acc ELSE SortLinesFrom(InsertByKey(acc, s[i]), s, i + 1)

SortLines(s) == SortLinesFrom(<< >>, s, 1)

(***************************************************************************)
(* filter_and_save_timestamped: the lines of the file it returns, and      *)
(* whether it raised (no timestamp mode selected).                         *)
(***************************************************************************)
filter_and_save_timestamped(lines, timestamps_mode, is_sheet) ==
    LET IsStamped(l) == l.kind = "timestamped"
        NotStamped(l) == l.kind # "timestamped"
        filtered_lines ==
            IF timestamps_mode = 1 THEN SelectSeq(lines, IsStamped)
            ELSE IF timestamps_mode = 2 /\ is_sheet THEN SelectSeq(lines, IsStamped)
            ELSE SelectSeq(lines, NotStamped)
    IN  IF timestamps_mode \in {1, 2} THEN [raised |-> FALSE, lines |-> filtered_lines]
        ELSE IF timestamps_mode = 3 THEN [raised |-> FALSE, lines |-> lines]
        ELSE [raised |-> TRUE, lines |-> << >>]

(***************************************************************************)
(* trim_concat_list_file.  random.sample(middle, k) is a choice of k       *)
(* positions of middle in some order: here a window of k consecutive       *)
(* positions, taken forwards or backwards.                                 *)
(***************************************************************************)
Reverse(s) == [i \in 1..Len(s) |-> s[Len(s) + 1 - i]]

Samples(middle, k) ==
    { IF rev THEN Reverse(SubSeq(middle, o + 1, o + k)) ELSE SubSeq(middle, o + 1, o + k) :
        o \in 0..(Len(middle) - k), rev \in BOOLEAN }

\* A trim that forgets to sort its lines.
SortTrimmedSkipped(final_lines) == final_lines

\* final_lines.sort(key=extract_cut_point_number)
SortTrimmed(final_lines) == SortLines(final_lines)

trim_concat_list_file(lines, target_line_count) ==
    IF Len(lines) > target_line_count THEN
        LET first_two == SubSeq(lines, 1, Min(2, Len(lines)))
            last_two == SubSeq(lines, Max(1, Len(lines) - 1), Len(lines))
            middle == SubSeq(lines, 3, Len(lines) - 2)
            num_to_keep == target_line_count - Len(first_two) - Len(last_two)
        IN  IF num_to_keep < 0 \/ num_to_keep > Len(middle)
            THEN { [raised |-> TRUE, lines |-> << >>] }
            ELSE { [raised |-> FALSE, lines |-> SortTrimmed(first_two \o trimmed_middle \o last_two)] :
                     trimmed_middle \in Samples(middle, num_to_keep) }
    ELSE { [raised |-> FALSE, lines |-> SortTrimmed(lines)] }

(***************************************************************************)
(* generate_video_segments: one pass of the for loop over the cut points.  *)
(* failX are the indexes whose extraction fails in this pass, failO those  *)
(* whose timestamp overlay fails.                                          *)
(***************************************************************************)
RECURSIVE ExtractFrom(_, _, _, _, _, _, _, _)
ExtractFrom(files, index, cut_points, duration, timestamps_mode, preview_sheet_required, failX, failO) ==
    IF index > Len(cut_points) THEN files
    ELSE
        LET next ==
              IF cut_points[index] >= duration THEN files
              ELSE IF index \in failX THEN
                  (IF Seg(index) \in Range(files) THEN RemoveFirst(files, Seg(index)) ELSE files)
              ELSE IF timestamps_mode \in {1, 2} THEN
                  (IF preview_sheet_required
                   THEN files \o << Seg(index),
                                    IF index \in failO THEN NoneEntry ELSE Timestamped(index) >>
                   ELSE Append(files, Seg(index)))
              ELSE Append(files, Seg(index))
        IN  ExtractFrom(next, index + 1, cut_points, duration, timestamps_mode,
                        preview_sheet_required, failX, failO)

\* The while condition of generate_video_segments.
MorePassesNeeded(files) == Len(files) < MinTempFiles

(***************************************************************************)
(* generate_and_run_ffmpeg_commands: video_groups, the row batches.        *)
(***************************************************************************)
RECURSIVE Batches(_, _)
Batches(video_files, grid) ==
    IF video_files = << >> THEN << >>
    ELSE << SubSeq(video_files, 1, Min(grid, Len(video_files))) >>
         \o Batches(SubSeq(video_files, Min(grid, Len(video_files)) + 1, Len(video_files)), grid)

(***************************************************************************)
(* generate_cut_points: one candidate set.  start and end are drawn from   *)
(* the ends of their ranges; a run of jittered consecutive interior slots  *)
(* beginning at slot a gets the jitters js, every other slot none.         *)
(***************************************************************************)
end_point_of(c, duration, drawn_end) ==
    IF c.last_cut_point = 0 THEN drawn_end ELSE (c.last_cut_point * 1000) \div duration

next_point(start_point, end_point, num_cuts, i, jitter) ==
    start_point + RoundDiv((end_point - start_point) * i, num_cuts) + jitter

candidate_points(c, start_point, end_point, a, js) ==
    LET num_cuts == c.num_of_segments - 1
        jitter(i) == IF i >= a /\ i - a \in DOMAIN js THEN js[i - a] ELSE 0
        points == [i \in 1..(num_cuts - 1) |->
                      next_point(start_point, end_point, num_cuts, i, jitter(i))]
    IN  {start_point, end_point} \cup
        { points[i] : i \in { k \in 1..(num_cuts - 1) :
                                start_point < points[k] /\ points[k] < end_point
                                /\ points[k] \notin c.blacklisted_cut_points } }

\* The first slots of the jittered runs that a draw can choose.
jitter_starts(n, jittered) ==
    IF jittered = 0 THEN {1} ELSE 1..Max(1, n - 1 - jittered)

\* cut_points_seconds = [round(duration * pct) for pct in sorted_points]
seconds_of(points, duration) == [i \in 1..Len(points) |-> RoundDiv(duration * points[i], 1000)]

\* The outcomes the scene detector can give for a candidate set of n points: the index
\* of the first point at which it reports a change, 0 when it reports none.
scene_outcomes(scene, n) ==
    IF scene = "never" THEN {0}
    ELSE IF scene = "always" THEN {1}
    ELSE 0..n

\* The calls that fail in one extraction pass: the indexes whose extraction fails
\* and those whose timestamp overlay fails.
fault_sets(extractor, n, budget) ==
    IF extractor = "ok" THEN { [x |-> {}, o |-> {}] }
    ELSE IF extractor = "dead" THEN { [x |-> 1..n, o |-> 1..n] }
    ELSE { [x |-> { f[i] : i \in { k \in 1..budget : f[k] > 0 } },
            o |-> { 0 - f[i] : i \in { k \in 1..budget : f[k] < 0 } }] :
             f \in [1..budget -> (0 - n)..n] }

\* The calls of a flaky extractor that have failed, after one more pass.
faults_after(extractor, faults, fail) ==
    IF extractor = "flaky" THEN faults + Cardinality(fail.x) + Cardinality(fail.o) ELSE faults

Count(k) == Min(k + 1, MaxCounted)

\* A create_preview_tool that calls process_video without validating.
create_preview_tool_unvalidated ==
    /\ pc = "start"
    /\ IF cfg.excluded THEN pc' = "done" /\ result' = "True"
       ELSE pc' = "file_checks" /\ result' = result
    /\ UNCHANGED << cfg, env, create, artifacts, temp_folder, calc_failed_counter,
                    segment_cut_duration, sorted_points, cut_points_seconds, temp_files_webp,
                    temp_files_preview, preview_bound, concat_list, concat_list_preview,
                    concat_list_preview_gif, concat_list_sheet, video_groups, trim_in, thumbs_in,
                    thumbs_out, trim_out, hist >>

(***************************************************************************)
(* create_preview_tool, lines 42-51: the excluded-file case and the        *)
(* validation of the configuration.                                        *)
(***************************************************************************)
create_preview_tool ==
    /\ pc = "start"
    /\ IF cfg.excluded THEN
           /\ pc' = "done" /\ result' = "True"
       ELSE IF ~is_valid(cfg) THEN
           /\ pc' = "done" /\ result' = "False"
       ELSE
           /\ pc' = "file_checks" /\ result' = result
    /\ UNCHANGED << cfg, env, create, artifacts, temp_folder, calc_failed_counter,
                    segment_cut_duration, sorted_points, cut_points_seconds, temp_files_webp,
                    temp_files_preview, preview_bound, concat_list, concat_list_preview,
                    concat_list_preview_gif, concat_list_sheet, video_groups, trim_in, thumbs_in,
                    thumbs_out, trim_out, hist >>

\* A process_video that deletes every existing file of an enabled format unasked.
file_checks_unasked ==
    /\ pc = "file_checks"
    /\ create' = create
    /\ artifacts' = artifacts \ create
    /\ hist' = [hist EXCEPT !.files_changed = @ \/ (artifacts \cap create) # {}]
    /\ IF create = {}
       THEN pc' = "done" /\ result' = "True"
       ELSE pc' = "probe" /\ result' = result
    /\ UNCHANGED << cfg, env, temp_folder, calc_failed_counter,
                    segment_cut_duration, sorted_points, cut_points_seconds, temp_files_webp,
                    temp_files_preview, preview_bound, concat_list, concat_list_preview,
                    concat_list_preview_gif, concat_list_sheet, video_groups, trim_in, thumbs_in,
                    thumbs_out, trim_out >>

(***************************************************************************)
(* process_video, lines 147-178 and 367-369: ask_delete_file for every     *)
(* enabled format whose file exists.  With overwrite on every such file is *)
(* removed; otherwise the user keeps those of env.declines, and a kept     *)
(* file's format is no longer created.                                     *)
(***************************************************************************)
file_checks ==
    /\ pc = "file_checks"
    /\ \E kept \in SUBSET (artifacts \cap create) :
         /\ cfg.overwrite_existing => kept = {}
         /\ ~cfg.overwrite_existing => kept = artifacts \cap create \cap env.declines
         /\ create' = create \ kept
         /\ artifacts' = artifacts \ (create \ kept)
         /\ hist' = [hist EXCEPT !.files_changed = @ \/ (artifacts \cap (create \ kept)) # {}]
         /\ IF create \ kept = {}
            THEN pc' = "done" /\ result' = "True"
            ELSE pc' = "probe" /\ result' = result
    /\ UNCHANGED << cfg, env, temp_folder, calc_failed_counter,
                    segment_cut_duration, sorted_points, cut_points_seconds, temp_files_webp,
                    temp_files_preview, preview_bound, concat_list, concat_list_preview,
                    concat_list_preview_gif, concat_list_sheet, video_groups, trim_in, thumbs_in,
                    thumbs_out, trim_out >>

(***************************************************************************)
(* process_video, lines 180-239: the rotation probe and the codec and      *)
(* resolution probe, then the scratch directory is removed and recreated.  *)
(***************************************************************************)
probe_video ==
    /\ pc = "probe"
    /\ \E outcome \in env.probe_outcomes :
         /\ hist' = [hist EXCEPT !.external_calls = TRUE,
                                 !.files_changed = @ \/ outcome = "ok",
                                 !.scratch_created = @ \/ outcome = "ok"]
         /\ IF outcome = "ok"
            THEN pc' = "duration" /\ result' = result /\ temp_folder' = TRUE
            ELSE pc' = "done" /\ result' = "False" /\ temp_folder' = temp_folder
    /\ UNCHANGED << cfg, env, create, artifacts, calc_failed_counter,
                    segment_cut_duration, sorted_points, cut_points_seconds, temp_files_webp,
                    temp_files_preview, preview_bound, concat_list, concat_list_preview,
                    concat_list_preview_gif, concat_list_sheet, video_groups, trim_in, thumbs_in,
                    thumbs_out, trim_out >>

\* A process_video that does not compare the duration with required_duration.
check_duration_unfloored ==
    /\ pc = "duration"
    /\ hist' = [hist EXCEPT !.external_calls = TRUE, !.duration_checked = TRUE]
    /\ pc' = "loop_top" /\ result' = result
    /\ calc_failed_counter' = 0
    /\ segment_cut_duration' =
          IF cfg.segment_duration # 0 THEN cfg.segment_duration ELSE DefaultSegmentDuration
    /\ UNCHANGED << cfg, env, create, artifacts, temp_folder,
                    sorted_points, cut_points_seconds, temp_files_webp,
                    temp_files_preview, preview_bound, concat_list, concat_list_preview,
                    concat_list_preview_gif, concat_list_sheet, video_groups, trim_in, thumbs_in,
                    thumbs_out, trim_out >>

(***************************************************************************)
(* process_video, lines 245-268: the duration probe, the duration floor,   *)
(* and the initial segment duration.  env.duration is 0 when the probe     *)
(* printed nothing.                                                        *)
(***************************************************************************)
check_duration ==
    /\ pc = "duration"
    /\ hist' = [hist EXCEPT !.external_calls = TRUE, !.duration_checked = TRUE]
    /\ IF env.duration = 0 \/ env.duration <= required_duration THEN
           /\ pc' = "done" /\ result' = "False"
           /\ UNCHANGED << calc_failed_counter, segment_cut_duration >>
       ELSE
           /\ pc' = "loop_top" /\ result' = result
           /\ calc_failed_counter' = 0
           /\ segment_cut_duration' =
                 IF cfg.segment_duration # 0 THEN cfg.segment_duration ELSE DefaultSegmentDuration
    /\ UNCHANGED << cfg, env, create, artifacts, temp_folder,
                    sorted_points, cut_points_seconds, temp_files_webp,
                    temp_files_preview, preview_bound, concat_list, concat_list_preview,
                    concat_list_preview_gif, concat_list_sheet, video_groups, trim_in, thumbs_in,
                    thumbs_out, trim_out >>

(***************************************************************************)
(* generate_cut_points, lines 431-439: the top of the while loop.  Every   *)
(* pass through it with a counter that is a positive multiple of 50 either *)
(* breaks (duration at or below the floor) or reduces the duration.        *)
(***************************************************************************)
backoff_due(counter) == counter % FailuresPerReduction = 0 /\ counter > 0

reduced(duration) == duration - DurationStep

at_floor(duration) == duration <= DurationFloor

gen_loop_top ==
    /\ pc = "loop_top"
    /\ IF backoff_due(calc_failed_counter) THEN
           IF at_floor(segment_cut_duration)
           THEN /\ pc' = "after_loop"
                /\ UNCHANGED << segment_cut_duration, hist >>
           ELSE /\ pc' = "draw"
                /\ segment_cut_duration' = reduced(segment_cut_duration)
                /\ hist' = [hist EXCEPT !.reductions = @ + 1]
       ELSE /\ pc' = "draw"
            /\ UNCHANGED << segment_cut_duration, hist >>
    /\ UNCHANGED << cfg, env, result, create, artifacts, temp_folder, calc_failed_counter,
                    sorted_points, cut_points_seconds, temp_files_webp,
                    temp_files_preview, preview_bound, concat_list, concat_list_preview,
                    concat_list_preview_gif, concat_list_sheet, video_groups, trim_in, thumbs_in,
                    thumbs_out, trim_out >>

(***************************************************************************)
(* generate_cut_points, lines 441-456 (and 476 when no confirmation is     *)
(* asked): draw a candidate set; a set that has not exactly n points sends *)
(* the loop back to its top without counting a failure.  With one segment  *)
(* the step divides by zero.                                               *)
(***************************************************************************)
accepts_candidate(points, n) == Cardinality(points) = n

gen_draw ==
    /\ pc = "draw"
    /\ IF cfg.num_of_segments = 1 THEN
           /\ pc' = "done" /\ result' = "raised"
           /\ UNCHANGED << sorted_points, cut_points_seconds >>
       ELSE
           \E start_point \in {StartLow, StartHigh}, drawn_end \in {EndLow, EndHigh},
              a \in jitter_starts(cfg.num_of_segments, env.jittered),
              js \in [0..(env.jittered - 1) -> {0 - MaxJitter, 0, MaxJitter}] :
             LET cut_points == candidate_points(cfg, start_point,
                                   end_point_of(cfg, env.duration, drawn_end), a, js)
             IN  /\ result' = result
                 /\ IF ~accepts_candidate(cut_points, cfg.num_of_segments) THEN
                        /\ pc' = "loop_top"
                        /\ UNCHANGED << sorted_points, cut_points_seconds >>
                    ELSE
                        /\ sorted_points' = SortedSeq(cut_points)
                        /\ IF cfg.confirm_cut_points_required
                           THEN pc' = "confirm" /\ UNCHANGED cut_points_seconds
                           ELSE /\ pc' = "probe_scene"
                                /\ cut_points_seconds' =
                                      seconds_of(SortedSeq(cut_points), env.duration)
    /\ UNCHANGED << cfg, env, create, artifacts, temp_folder, calc_failed_counter,
                    segment_cut_duration, temp_files_webp,
                    temp_files_preview, preview_bound, concat_list, concat_list_preview,
                    concat_list_preview_gif, concat_list_sheet, video_groups, trim_in, thumbs_in,
                    thumbs_out, trim_out, hist >>

(***************************************************************************)
(* generate_cut_points, lines 457-467 and 476: the user is shown the drawn *)
(* set and answers; any answer but yes sends the loop back to its top.     *)
(***************************************************************************)
gen_confirm ==
    /\ pc = "confirm"
    /\ \E confirmation \in {"yes", "no"} :
         IF confirmation # "yes"
         THEN pc' = "loop_top" /\ UNCHANGED cut_points_seconds
         ELSE /\ pc' = "probe_scene"
              /\ cut_points_seconds' = seconds_of(sorted_points, env.duration)
    /\ UNCHANGED << cfg, env, result, create, artifacts, temp_folder, calc_failed_counter,
                    segment_cut_duration, sorted_points, temp_files_webp,
                    temp_files_preview, preview_bound, concat_list, concat_list_preview,
                    concat_list_preview_gif, concat_list_sheet, video_groups, trim_in, thumbs_in,
                    thumbs_out, trim_out, hist >>

\* A generate_cut_points that extracts a set whatever the detector reports.
gen_probe_scene_unheeded ==
    /\ pc = "probe_scene"
    /\ \E first_change \in scene_outcomes(env.scene, Len(cut_points_seconds)) :
         /\ pc' = "extract"
         /\ temp_files_webp' = << >>
         /\ hist' = [hist EXCEPT !.external_calls = TRUE, !.scene_probed = TRUE,
                                 !.last_probe = first_change,
                                 !.extract_calls = Count(@), !.passes = 0]
         /\ UNCHANGED calc_failed_counter
    /\ UNCHANGED << cfg, env, result, create, artifacts, temp_folder,
                    segment_cut_duration, sorted_points, cut_points_seconds,
                    temp_files_preview, preview_bound, concat_list, concat_list_preview,
                    concat_list_preview_gif, concat_list_sheet, video_groups, trim_in, thumbs_in,
                    thumbs_out, trim_out >>

(***************************************************************************)
(* generate_cut_points, lines 478-502: probe the points in order until the *)
(* detector reports a change; a change counts one failure and discards the *)
(* set, no change calls generate_video_segments (line 520).  The history   *)
(* keeps the discarded set for a selective detector only.                  *)
(***************************************************************************)
gen_probe_scene ==
    /\ pc = "probe_scene"
    /\ \E first_change \in scene_outcomes(env.scene, Len(cut_points_seconds)) :
         IF first_change # 0 THEN
             /\ calc_failed_counter' = calc_failed_counter + 1
             /\ pc' = "loop_top"
             /\ hist' = [hist EXCEPT !.external_calls = TRUE, !.scene_probed = TRUE,
                                     !.last_probe = first_change,
                                     !.discarded = IF env.scene = "any"
                                                   THEN sorted_points ELSE @,
                                     !.discarded_at = IF env.scene = "any"
                                                      THEN first_change ELSE @]
             /\ UNCHANGED temp_files_webp
         ELSE
             /\ pc' = "extract"
             /\ temp_files_webp' = << >>
             /\ hist' = [hist EXCEPT !.external_calls = TRUE, !.scene_probed = TRUE,
                                     !.last_probe = first_change,
                                     !.extract_calls = Count(@), !.passes = 0]
             /\ UNCHANGED calc_failed_counter
    /\ UNCHANGED << cfg, env, result, create, artifacts, temp_folder,
                    segment_cut_duration, sorted_points, cut_points_seconds,
                    temp_files_preview, preview_bound, concat_list, concat_list_preview,
                    concat_list_preview_gif, concat_list_sheet, video_groups, trim_in, thumbs_in,
                    thumbs_out, trim_out >>

(***************************************************************************)
(* generate_video_segments, lines 522-567, one pass of its while loop, and *)
(* lines 504-512 of generate_cut_points when it returns: an empty result   *)
(* empties the scratch directory and continues the planner's loop, any     *)
(* other result is returned to process_video.                              *)
(***************************************************************************)
preview_sheet_required == create \cap SheetFormats # {}

pass_result(files, failX, failO) ==
    ExtractFrom(files, 1, cut_points_seconds, env.duration, cfg.timestamps_mode,
                preview_sheet_required, failX, failO)

extract_pass ==
    /\ pc = "extract"
    /\ \E fail \in fault_sets(env.extractor, Len(cut_points_seconds), MaxFaults - hist.faults) :
         LET files == pass_result(temp_files_webp, fail.x, fail.o)
             faults == faults_after(env.extractor, hist.faults, fail)
         IN  IF files = << >> THEN
                 /\ pc' = "loop_top"
                 /\ temp_files_webp' = files
                 /\ temp_files_preview' = << >> /\ preview_bound' = TRUE
                 /\ hist' = [hist EXCEPT !.zero_survivors = TRUE, !.passes = Count(@),
                                         !.faults = faults]
             ELSE IF MorePassesNeeded(files) THEN
                 /\ pc' = "extract"
                 /\ temp_files_webp' = files
                 /\ hist' = [hist EXCEPT !.passes = Count(@), !.faults = faults]
                 /\ UNCHANGED << temp_files_preview, preview_bound >>
             ELSE
                 /\ pc' = "write_concat"
                 /\ temp_files_webp' = files
                 /\ temp_files_preview' = files /\ preview_bound' = TRUE
                 /\ hist' = [hist EXCEPT !.passes = Count(@), !.faults = faults]
    /\ UNCHANGED << cfg, env, result, create, artifacts, temp_folder, calc_failed_counter,
                    segment_cut_duration, sorted_points, cut_points_seconds,
                    concat_list, concat_list_preview,
                    concat_list_preview_gif, concat_list_sheet, video_groups, trim_in, thumbs_in,
                    thumbs_out, trim_out >>

(***************************************************************************)
(* generate_cut_points, lines 513-514, after the break, and line 274 of    *)
(* process_video: temp_files_preview is either unbound (UnboundLocalError) *)
(* or empty, in which case None is returned and iterating it raises.       *)
(***************************************************************************)
gen_exhausted ==
    /\ pc = "after_loop"
    /\ pc' = "done" /\ result' = "raised"
    /\ hist' = [hist EXCEPT !.exhausted = TRUE]
    /\ UNCHANGED << cfg, env, create, artifacts, temp_folder, calc_failed_counter,
                    segment_cut_duration, sorted_points, cut_points_seconds, temp_files_webp,
                    temp_files_preview, preview_bound, concat_list, concat_list_preview,
                    concat_list_preview_gif, concat_list_sheet, video_groups, trim_in, thumbs_in,
                    thumbs_out, trim_out >>

(***************************************************************************)
(* process_video, lines 272-280: write concat_list.txt, derive the full    *)
(* playlist, and trim it to the gif-subset unless the gif size equals the  *)
(* segment count.  Either helper can raise, which ends process_video.      *)
(***************************************************************************)
gif_outcomes(full) ==
    IF cfg.num_of_segments # cfg.number_of_segments_gif
    THEN trim_concat_list_file(full, cfg.number_of_segments_gif)
    ELSE { [raised |-> FALSE, lines |-> full] }

write_playlists ==
    /\ pc = "write_concat"
    /\ concat_list' = temp_files_preview
    /\ LET full == filter_and_save_timestamped(temp_files_preview, cfg.timestamps_mode, FALSE)
       IN  IF full.raised THEN
               /\ pc' = "done" /\ result' = "raised"
               /\ UNCHANGED << concat_list_preview, concat_list_preview_gif >>
           ELSE
               /\ concat_list_preview' = full.lines
               /\ \E gif \in gif_outcomes(full.lines) :
                    IF gif.raised
                    THEN /\ pc' = "done" /\ result' = "raised"
                         /\ UNCHANGED concat_list_preview_gif
                    ELSE /\ pc' = "assemble" /\ result' = result
                         /\ concat_list_preview_gif' = gif.lines
    /\ hist' = [hist EXCEPT !.filtered = TRUE,
                            !.trim_called = cfg.num_of_segments # cfg.number_of_segments_gif]
    /\ UNCHANGED << cfg, env, create, artifacts, temp_folder, calc_failed_counter,
                    segment_cut_duration, sorted_points, cut_points_seconds, temp_files_webp,
                    temp_files_preview, preview_bound, concat_list_sheet, video_groups,
                    trim_in, thumbs_in, thumbs_out, trim_out >>

(***************************************************************************)
(* process_video, lines 282-348: the concatenation and the transcodes of   *)
(* the enabled single-strip formats, in order; the first command that      *)
(* fails ends process_video with False.  Concatenating an empty playlist   *)
(* produces no file.  A transcode writes straight to the final path, so a  *)
(* failed one may leave a file there.                                      *)
(***************************************************************************)
preview_steps ==
    << "concat" >>
    \o (IF "webp" \in create THEN << "webp" >> ELSE << >>)
    \o (IF "webm" \in create THEN << "webm" >> ELSE << >>)
    \o (IF "gif" \in create THEN << "concat_gif", "gif" >> ELSE << >>)

step_must_fail(step) ==
    \/ step = "concat" /\ concat_list_preview = << >>
    \/ step = "concat_gif" /\ concat_list_preview_gif = << >>

assemble_preview ==
    /\ pc = "assemble"
    /\ \E fail_at \in 0..Len(preview_steps), partial \in BOOLEAN :
         /\ \A i \in 1..Len(preview_steps) :
               step_must_fail(preview_steps[i]) => (fail_at # 0 /\ fail_at <= i)
         /\ LET done_steps == IF fail_at = 0 THEN Range(preview_steps)
                              ELSE { preview_steps[i] : i \in 1..(fail_at - 1) }
                left_over == IF fail_at # 0 /\ partial
                             THEN {preview_steps[fail_at]} \cap Formats ELSE {}
                started == IF fail_at = 0 THEN Range(preview_steps)
                           ELSE { preview_steps[i] : i \in 1..fail_at }
            IN  /\ artifacts' = artifacts \cup (done_steps \cap Formats) \cup left_over
                /\ IF fail_at # 0
                   THEN pc' = "done" /\ result' = "False"
                   ELSE pc' = "sheet" /\ result' = result
                /\ hist' = [hist EXCEPT !.external_calls = TRUE, !.files_changed = TRUE,
                                        !.command_failed = @ \/ fail_at # 0,
                                        !.commands = started,
                                        !.completed = @ \cup (done_steps \cap Formats),
                                        !.written = @ \cup (done_steps \cap Formats)
                                                      \cup left_over]
    /\ UNCHANGED << cfg, env, create, temp_folder, calc_failed_counter,
                    segment_cut_duration, sorted_points, cut_points_seconds, temp_files_webp,
                    temp_files_preview, preview_bound, concat_list, concat_list_preview,
                    concat_list_preview_gif, concat_list_sheet, video_groups,
                    trim_in, thumbs_in, thumbs_out, trim_out >>

(***************************************************************************)
(* process_video, lines 350-366, with generate_and_run_ffmpeg_commands     *)
(* (lines 743-871): the sheet playlist, its row batches when a sheet       *)
(* format is enabled, the sheet files that the stacking and the transcodes *)
(* produce, and the removal of the scratch directory.  A failed row stack  *)
(* is skipped (line 793) with its file still among the inputs of the final *)
(* stack (782, 799), a failed final stack or downscale returns before      *)
(* the transcodes (806, 817), a failed transcode is logged.  Whatever      *)
(* happens in the sheet assembler, process_video returns True.  The header  *)
(* clip is made (line 776) with the segment_duration argument of the call  *)
(* at line 353: process_video's own segment_cut_duration of line 268,      *)
(* which the reductions inside generate_cut_points do not change.          *)
(***************************************************************************)
\* The rows whose horizontal stacking fails in one run: none, or the first one.
row_failures(rows) == { {}, {1} \cap (1..rows) }

\* Lines 779-782 and 799: the stacked file of every row is appended to
\* intermediate_files before its command is run, and the vertical stacking takes them
\* all.
intermediate_files(groups) == [index \in 1..Len(groups) |-> index]

sheet_segment_duration ==
    IF cfg.segment_duration # 0 THEN cfg.segment_duration ELSE DefaultSegmentDuration

sheet_stage ==
    /\ pc = "sheet"
    /\ LET sheet == filter_and_save_timestamped(concat_list, cfg.timestamps_mode, TRUE)
       IN  IF sheet.raised THEN
               /\ pc' = "done" /\ result' = "raised"
               /\ UNCHANGED << concat_list_sheet, video_groups, artifacts, temp_folder, hist >>
           ELSE
               /\ concat_list_sheet' = sheet.lines
               /\ pc' = "done" /\ result' = "True"
               /\ temp_folder' = (cfg.keep_temp_files /\ temp_folder)
               /\ IF preview_sheet_required THEN
                      /\ video_groups' = IF cfg.grid_width \in {3, 4}
                                         THEN Batches(sheet.lines, cfg.grid_width)
                                         ELSE << >>
                      /\ \E failed_rows \in row_failures(Len(video_groups')),
                            sheet_stacked \in BOOLEAN,
                            made \in SUBSET (create \cap SheetFormats) :
                           /\ ~sheet_stacked => made = {}
                           /\ artifacts' = artifacts \cup made
                           /\ hist' = [hist EXCEPT
                                 !.external_calls = TRUE, !.sheet_built = TRUE,
                                 !.header_duration =
                                     IF cfg.grid_width \in {3, 4}
                                     THEN sheet_segment_duration ELSE @,
                                 !.completed = @ \cup made,
                                 !.written = @ \cup made,
                                 !.failed_rows = failed_rows,
                                 !.intermediate_files = intermediate_files(video_groups'),
                                 !.command_failed = @ \/ failed_rows # {} \/ ~sheet_stacked
                                                      \/ made # create \cap SheetFormats]
                  ELSE
                      UNCHANGED << video_groups, artifacts, hist >>
    /\ UNCHANGED << cfg, env, create, calc_failed_counter,
                    segment_cut_duration, sorted_points, cut_points_seconds, temp_files_webp,
                    temp_files_preview, preview_bound, concat_list, concat_list_preview,
                    concat_list_preview_gif, trim_in, thumbs_in, thumbs_out, trim_out >>

(***************************************************************************)
(* trim_concat_list_file applied alone to a playlist and a target count.   *)
(***************************************************************************)
apply_trim ==
    /\ pc = "trim"
    /\ \E out \in trim_concat_list_file(trim_in.lines, trim_in.target) :
         trim_out' = [ran |-> TRUE, raised |-> out.raised, lines |-> out.lines]
    /\ pc' = "done"
    /\ UNCHANGED << cfg, env, result, create, artifacts, temp_folder, calc_failed_counter,
                    segment_cut_duration, sorted_points, cut_points_seconds, temp_files_webp,
                    temp_files_preview, preview_bound, concat_list, concat_list_preview,
                    concat_list_preview_gif, concat_list_sheet, video_groups, trim_in, thumbs_in, thumbs_out, hist >>

(***************************************************************************)
(* generate_thumbnails_sheet (src/Generate_Thumbnails_Sheet.py).  Frames   *)
(* are numbered 1..frames in the sorted order of their files.  fewer_rows  *)
(* stands for is_vertical and fit_thumbs_in_less_rows.  Any exception is   *)
(* caught and logged (lines 269-270) and no sheet is saved.                *)
(***************************************************************************)
\* sorted(random.sample(range(last_index), num_needed)): the index sets it can give.
random_indexes_of(last_index, num_needed) ==
    { S \in SUBSET (0..(last_index - 1)) : Cardinality(S) = num_needed }

\* Lines 189-215: the frames kept for the alternate layout.  When there are no more
\* remaining frames than target_frame_count nothing is sampled, random_indexes is
\* never bound, and line 215 raises.
alternate_image_files(frames, columns) ==
    IF frames < 2 THEN { [raised |-> TRUE, image_files |-> << >>] }
    ELSE
        LET remaining == frames - 1
            target_frame_count == columns * columns - 3
            last_index == remaining - 1
            num_needed == target_frame_count - 1
        IN  IF remaining > target_frame_count THEN
                IF num_needed < 0 THEN { [raised |-> TRUE, image_files |-> << >>] }
                ELSE { [raised |-> FALSE,
                        image_files |-> << 1 >>
                            \o [i \in 1..num_needed |-> SortedSeq(S)[i] + 2]
                            \o << last_index + 2 >>] :
                         S \in random_indexes_of(last_index, num_needed) }
            ELSE { [raised |-> TRUE, image_files |-> << >>] }

\* Lines 226-229: rows, with -(-len(thumbs) // columns) the ceiling of the quotient.
rows_of(count, columns, fewer_rows) ==
    LET ceiling == (count + columns - 1) \div columns
    IN  IF fewer_rows /\ count >= 6 THEN ceiling \div 2 ELSE ceiling

\* Lines 242-262: the cells of the sheet in row-major order.  The first cell takes the
\* enlarged first frame, the other cells of the top-left 2x2 block are skipped, and a
\* cell met when every frame is pasted ends its row.
RECURSIVE paste_cells(_, _, _, _, _, _, _)
paste_cells(cell, index, pasted, thumbs, columns, rows, alternate_layout) ==
    IF cell >= rows * columns THEN pasted
    ELSE
        LET row == cell \div columns
            col == cell % columns
        IN  IF alternate_layout /\ index = 0 THEN
                paste_cells(cell + 1, 1,
                            Append(pasted, [row |-> row, col |-> col, large |-> TRUE,
                                            frame |-> thumbs[1]]),
                            thumbs, columns, rows, alternate_layout)
            ELSE IF alternate_layout /\ row < 2 /\ col < 2 THEN
                paste_cells(cell + 1, index, pasted, thumbs, columns, rows, alternate_layout)
            ELSE IF index >= Len(thumbs) THEN
                paste_cells(cell + 1, index, pasted, thumbs, columns, rows, alternate_layout)
            ELSE
                paste_cells(cell + 1, index + 1,
                            Append(pasted, [row |-> row, col |-> col, large |-> FALSE,
                                            frame |-> thumbs[index + 1]]),
                            thumbs, columns, rows, alternate_layout)

generate_thumbnails_sheet(frames, columns, fewer_rows, alternate_layout) ==
    LET kept == IF frames = 0 THEN { [raised |-> TRUE, image_files |-> << >>] }
                ELSE IF alternate_layout THEN alternate_image_files(frames, columns)
                ELSE { [raised |-> FALSE, image_files |-> [i \in 1..frames |-> i]] }
    IN  { IF k.raised
          THEN [saved |-> FALSE, image_files |-> << >>, pasted |-> << >>]
          ELSE [saved |-> TRUE, image_files |-> k.image_files,
                pasted |-> paste_cells(0, 0, << >>, k.image_files, columns,
                                       rows_of(Len(k.image_files), columns, fewer_rows),
                                       alternate_layout)] :
            k \in kept }

\* generate_thumbnails_sheet applied alone to a directory of frames.
apply_thumbnails_sheet ==
    /\ pc = "thumbs"
    /\ \E out \in generate_thumbnails_sheet(thumbs_in.frames, thumbs_in.columns,
                                            thumbs_in.fewer_rows, thumbs_in.alternate_layout) :
         thumbs_out' = [ran |-> TRUE, saved |-> out.saved, image_files |-> out.image_files,
                        pasted |-> out.pasted]
    /\ pc' = "done"
    /\ UNCHANGED << cfg, env, result, create, artifacts, temp_folder, calc_failed_counter,
                    segment_cut_duration, sorted_points, cut_points_seconds, temp_files_webp,
                    temp_files_preview, preview_bound, concat_list, concat_list_preview,
                    concat_list_preview_gif, concat_list_sheet, video_groups, trim_in,
                    trim_out, thumbs_in, hist >>

(***************************************************************************)
(* Initial states.                                                         *)
(***************************************************************************)
NoHistory ==
    [external_calls |-> FALSE, files_changed |-> FALSE, extract_calls |-> 0, passes |-> 0,
     zero_survivors |-> FALSE, exhausted |-> FALSE, reductions |-> 0, filtered |-> FALSE,
     sheet_built |-> FALSE, faults |-> 0,
     duration_checked |-> FALSE, scene_probed |-> FALSE,
     command_failed |-> FALSE, scratch_created |-> FALSE, completed |-> {},
     written |-> {},
     last_probe |-> 0, discarded |-> << >>, discarded_at |-> 0,
     header_duration |-> 0, trim_called |-> FALSE, commands |-> {},
     failed_rows |-> {}, intermediate_files |-> << >>]

NoTrim == [ran |-> FALSE, raised |-> FALSE, lines |-> << >>]

Config(n, grid, gif, mode, formats, segdur, blacklist, excluded) ==
    [num_of_segments |-> n, grid_width |-> grid, number_of_segments_gif |-> gif,
     timestamps_mode |-> mode, create |-> formats, segment_duration |-> segdur,
     blacklisted_cut_points |-> blacklist, last_cut_point |-> 0,
     confirm_cut_points_required |-> FALSE, overwrite_existing |-> TRUE,
     keep_temp_files |-> FALSE, excluded |-> excluded]

Environment(duration, scene, extractor, jittered) ==
    [duration |-> duration, scene |-> scene, extractor |-> extractor, jittered |-> jittered,
     probe_outcomes |-> {"ok", "rotation"}, declines |-> Formats, existing |-> {}]

NoTrimInput == [lines |-> << >>, target |-> 0]

NoThumbsInput == [frames |-> 0, columns |-> 0, fewer_rows |-> FALSE, alternate_layout |-> FALSE]

NoThumbs == [ran |-> FALSE, saved |-> FALSE, image_files |-> << >>, pasted |-> << >>]

StartAt(position, c, e, segdur, tin) ==
    /\ cfg = c
    /\ env = e
    /\ pc = position
    /\ result = "none"
    /\ create = c.create
    /\ artifacts = {}
    /\ temp_folder = (position = "loop_top")
    /\ calc_failed_counter = 0
    /\ segment_cut_duration = segdur
    /\ sorted_points = << >>
    /\ cut_points_seconds = << >>
    /\ temp_files_webp = << >>
    /\ temp_files_preview = << >>
    /\ preview_bound = FALSE
    /\ concat_list = << >>
    /\ concat_list_preview = << >>
    /\ concat_list_preview_gif = << >>
    /\ concat_list_sheet = << >>
    /\ video_groups = << >>
    /\ trim_in = tin
    /\ trim_out = NoTrim
    /\ thumbs_in = NoThumbsInput
    /\ thumbs_out = NoThumbs
    /\ hist = NoHistory

\* The whole tool, from create_preview_tool on: a small and a sheet-sized segment count,
\* valid and invalid grid and gif sizes, the three timestamp modes, a detector that
\* never or always reports a change, an extractor that works, never works or (with a
\* grid of 3) fails at most MaxFaults calls.
Init ==
    \E n \in {3, 12}, grid \in {3, 4}, mode \in {1, 2, 3},
       formats \in { {"webp"}, {"webp", "gif"}, {"gif", "webp_sheet"} },
       excluded \in BOOLEAN, scene \in {"never", "always"},
       extractor \in {"ok", "dead", "flaky"} :
      \E gif \in {0, 3, n - 1, n, n + 1} :
        /\ scene = "always" => extractor = "ok"
        /\ extractor = "flaky" => grid = 3
        /\ StartAt("start",
                   Config(n, grid, gif, mode, formats, 10, {}, excluded),
                   Environment(600, scene, extractor, 0), 0, NoTrimInput)

Next ==
    \/ create_preview_tool
    \/ file_checks
    \/ probe_video
    \/ check_duration
    \/ gen_loop_top
    \/ gen_draw
    \/ gen_probe_scene
    \/ extract_pass
    \/ gen_exhausted
    \/ write_playlists
    \/ assemble_preview
    \/ sheet_stage

Spec == Init /\ [][Next]_vars

\* generate_cut_points alone, called with a stub detector: small and large segment
\* counts, short and long sources, durations at, above and off the 0.1 s grid, with and
\* without a blacklisted interior point, with a blacklisted start point, with and
\* without the user's confirmation.
InitPlan ==
    \E n \in {3, 21}, duration \in {151, 600}, segdur \in {10, 20, 25},
       blacklist \in { {}, {498}, {StartHigh} }, scene \in {"never", "always"},
       confirm \in BOOLEAN :
      /\ scene = "always" => n = 3
      /\ blacklist = {StartHigh} =>
            (n = 3 /\ duration = 600 /\ segdur = 10 /\ scene = "never" /\ ~confirm)
      /\ confirm => (n = 3 /\ duration = 600 /\ blacklist = {})
      /\ StartAt("loop_top",
                 [Config(n, 3, n, 3, {"webp"}, segdur, blacklist, FALSE)
                     EXCEPT !.confirm_cut_points_required = confirm],
                 Environment(duration, scene, "ok", MaxJittered), segdur, NoTrimInput)

NextPlan ==
    \/ gen_loop_top
    \/ gen_draw
    \/ gen_confirm
    \/ gen_probe_scene
    \/ gen_exhausted

SpecPlan == InitPlan /\ [][NextPlan]_vars

\* generate_cut_points alone, up to the set it hands to extraction, with the end point
\* drawn or overridden by last_cut_point (seconds: 540 is 0.9 of the source, 6 is 0.01 of
\* it, below every start point).  The random source is fair: a draw that can give an
\* accepted set infinitely often eventually gives one.
InitPlanFair ==
    \E segdur \in {10, 20}, last_cut_point \in {0, 6, 540}, blacklist \in { {}, {498} },
       scene \in {"never", "always"} :
      StartAt("loop_top",
              [Config(3, 3, 3, 3, {"webp"}, segdur, blacklist, FALSE)
                  EXCEPT !.last_cut_point = last_cut_point],
              Environment(600, scene, "ok", 1), segdur, NoTrimInput)

NextPlanFair ==
    \/ gen_loop_top
    \/ gen_draw
    \/ gen_probe_scene
    \/ gen_exhausted

AcceptingDraw == gen_draw /\ pc' # "loop_top"

SpecPlanFair ==
    InitPlanFair /\ [][NextPlanFair]_vars /\ WF_vars(NextPlanFair) /\ SF_vars(AcceptingDraw)

\* generate_cut_points alone with a detector that reports a change at any point of a
\* set or at none.
InitScene ==
    \E n \in {3}, segdur \in {10, 20} :
      StartAt("loop_top", Config(n, 3, n, 3, {"webp"}, segdur, {}, FALSE),
              Environment(600, "any", "ok", 1), segdur, NoTrimInput)

SpecScene == InitScene /\ [][NextPlanFair]_vars

\* process_video run again: artifacts of an earlier run lie in the output directory,
\* overwriting is on or off, the user declines the deletion of the files in env.declines,
\* temporary files are kept or not, and the source is below, at or above the duration
\* floor.
StartOver(c, e, prior) ==
    /\ cfg = c
    /\ env = e
    /\ pc = "start"
    /\ result = "none"
    /\ create = c.create
    /\ artifacts = prior
    /\ temp_folder = FALSE
    /\ calc_failed_counter = 0
    /\ segment_cut_duration = 0
    /\ sorted_points = << >>
    /\ cut_points_seconds = << >>
    /\ temp_files_webp = << >>
    /\ temp_files_preview = << >>
    /\ preview_bound = FALSE
    /\ concat_list = << >>
    /\ concat_list_preview = << >>
    /\ concat_list_preview_gif = << >>
    /\ concat_list_sheet = << >>
    /\ video_groups = << >>
    /\ trim_in = NoTrimInput
    /\ trim_out = NoTrim
    /\ thumbs_in = NoThumbsInput
    /\ thumbs_out = NoThumbs
    /\ hist = NoHistory

InitRun ==
    \E formats \in { {"webp", "gif"}, {"gif", "webp_sheet"} },
       duration \in {140, 150, 160}, keep \in BOOLEAN, overwrite \in BOOLEAN,
       scene \in {"never", "always"}, mode \in {1, 3}, gif \in {6, 12} :
      \E prior \in SUBSET formats, declines \in SUBSET formats :
        /\ (overwrite \/ prior = {}) => declines = {}
        /\ StartOver([Config(12, 4, gif, mode, formats, 10, {}, FALSE)
                         EXCEPT !.overwrite_existing = overwrite,
                                !.keep_temp_files = keep],
                     [Environment(duration, scene, "ok", 0)
                         EXCEPT !.declines = declines, !.existing = prior],
                     prior)

SpecRun == InitRun /\ [][Next]_vars

\* The whole tool with a sheet format enabled and a detector that reports a change at
\* any point of a set or at none, so that extraction can follow a backoff.
InitSheet ==
    \E mode \in {1, 3}, segdur \in {10, 20} :
      StartAt("start", Config(9, 3, 9, mode, {"gif", "webp_sheet"}, segdur, {}, FALSE),
              Environment(600, "any", "ok", 0), 0, NoTrimInput)

SpecSheet == InitSheet /\ [][Next]_vars

\* trim_concat_list_file alone: every playlist of up to MaxTrimLen lines over three
\* cut points and the None line, with every target count up to one more than that.
TrimLines == { Seg(1), Seg(2), Seg(3), NoneEntry }

InitTrim ==
    \E len \in 0..MaxTrimLen, target \in 1..(MaxTrimLen + 1) :
      \E lines \in [1..len -> TrimLines] :
        StartAt("trim", Config(3, 3, 3, 3, {"webp"}, 10, {}, FALSE),
                Environment(600, "never", "ok", 0), 10,
                [lines |-> lines, target |-> target])

NextTrim == apply_trim

SpecTrim == InitTrim /\ [][NextTrim]_vars

\* generate_thumbnails_sheet alone: every number of frames up to MaxFrames, every
\* number of columns up to MaxColumns, in the standard and in the alternate layout.
InitThumbs ==
    \E frames \in 0..MaxFrames, columns \in 1..MaxColumns, fewer_rows \in BOOLEAN,
       alternate_layout \in BOOLEAN :
      /\ cfg = Config(3, 3, 3, 3, {"webp"}, 10, {}, FALSE)
      /\ env = Environment(600, "never", "ok", 0)
      /\ pc = "thumbs"
      /\ result = "none"
      /\ create = {"webp"}
      /\ artifacts = {}
      /\ temp_folder = FALSE
      /\ calc_failed_counter = 0
      /\ segment_cut_duration = 0
      /\ sorted_points = << >>
      /\ cut_points_seconds = << >>
      /\ temp_files_webp = << >>
      /\ temp_files_preview = << >>
      /\ preview_bound = FALSE
      /\ concat_list = << >>
      /\ concat_list_preview = << >>
      /\ concat_list_preview_gif = << >>
      /\ concat_list_sheet = << >>
      /\ video_groups = << >>
      /\ trim_in = NoTrimInput
      /\ trim_out = NoTrim
      /\ thumbs_in = [frames |-> frames, columns |-> columns, fewer_rows |-> fewer_rows,
                      alternate_layout |-> alternate_layout]
      /\ thumbs_out = NoThumbs
      /\ hist = NoHistory

NextThumbs == apply_thumbnails_sheet

SpecThumbs == InitThumbs /\ [][NextThumbs]_vars

\* The validation alone: every grid width up to MaxGrid, every segment count up to
\* MaxSegments, gif sizes at and around the ends of the accepted range, and every
\* combination of sheet formats.
InitValidate ==
    \E n \in 0..MaxSegments, grid \in 0..MaxGrid, sheets \in SUBSET SheetFormats :
      \E gif \in {0, 1, n, n + 1} :
        StartAt("start", Config(n, grid, gif, 3, {"webp"} \cup sheets, 10, {}, FALSE),
                Environment(600, "never", "ok", 0), 0, NoTrimInput)

NextValidate == create_preview_tool

SpecValidate == InitValidate /\ [][NextValidate]_vars

(***************************************************************************)
(* Properties.                                                             *)
(***************************************************************************)
StrictlyIncreasing(s) == \A i \in 1..Len(s) : \A j \in 1..Len(s) : i < j => s[i] < s[j]

\* The cut-point indexes of the lines of a playlist that name a segment file.
Indexes(lines) ==
    LET Named(l) == l.kind # "none"
        named == SelectSeq(lines, Named)
    IN  [i \in 1..Len(named) |-> named[i].cp]

Ascending(s) == \A i \in 1..Len(s) : \A j \in 1..Len(s) : i < j => s[i] <= s[j]

NoRepeat(s) == \A i \in 1..Len(s) : \A j \in 1..Len(s) : i # j => s[i] # s[j]

\* C1: with a detector that never reports a change, the timestamps handed to
\* extraction are exactly n, strictly increasing, and each strictly between 0 and the
\* duration of the source.
C1_HandedTimestamps ==
    (pc = "extract" /\ env.scene = "never") =>
        /\ Len(cut_points_seconds) = cfg.num_of_segments
        /\ StrictlyIncreasing(cut_points_seconds)
        /\ \A i \in 1..Len(cut_points_seconds) :
              0 < cut_points_seconds[i] /\ cut_points_seconds[i] < env.duration

\* The 0.1 s steps that take an initial segment duration to the floor or below.
RECURSIVE StepsToFloor(_)
StepsToFloor(d) == IF d <= DurationFloor THEN 0 ELSE 1 + StepsToFloor(d - DurationStep)

\* C2: with a detector that reports a change on every probe, no extraction is ever
\* started, and the planner is exhausted with the segment duration at the floor after
\* a number of discards fixed by the initial duration: 50 for each 0.1 s step down to
\* the floor and 50 more at the floor.
C2_ExhaustedAfterFixedDiscards ==
    env.scene = "always" =>
        /\ hist.extract_calls = 0
        /\ hist.exhausted =>
              /\ at_floor(segment_cut_duration)
              /\ calc_failed_counter =
                    FailuresPerReduction * (StepsToFloor(cfg.segment_duration) + 1)

\* C3: once an extraction has left zero surviving segments, the run has ended and
\* process_video has returned False.
C3_ZeroSurvivorsFail ==
    hist.zero_survivors => (pc = "done" /\ result = "False")

\* C4: the raw concat list and the full, gif-subset and sheet playlists list their
\* segments in ascending cut-point index order.
C4_PlaylistsAscending ==
    /\ Ascending(Indexes(concat_list))
    /\ Ascending(Indexes(concat_list_preview))
    /\ Ascending(Indexes(concat_list_preview_gif))
    /\ Ascending(Indexes(concat_list_sheet))

\* C5: in the full playlist and in the sheet playlist no cut-point index appears more
\* than once, and neither playlist has more than n entries.
C5_OneSegmentPerCutPoint ==
    /\ NoRepeat(Indexes(concat_list_preview))
    /\ NoRepeat(Indexes(concat_list_sheet))
    /\ Len(concat_list_preview) <= cfg.num_of_segments
    /\ Len(concat_list_sheet) <= cfg.num_of_segments

\* C6: under a valid configuration with every extraction and overlay succeeding, when
\* the sheet is assembled exactly n segments have survived and the sheet is made of
\* exactly n/g row batches of g segments each, in every timestamp mode.
C6_RowBatches ==
    (hist.sheet_built /\ env.extractor = "ok") =>
        /\ Cardinality(Range(Indexes(concat_list))) = cfg.num_of_segments
        /\ Len(video_groups) * cfg.grid_width = cfg.num_of_segments
        /\ \A b \in 1..Len(video_groups) : Len(video_groups[b]) = cfg.grid_width

\* C7: in every run that has filtered its playlists, the gif-subset playlist is
\* non-empty and no longer than the full playlist.
C7_GifSubsetBounds ==
    (hist.filtered /\ result # "raised") =>
        /\ 0 < Len(concat_list_preview_gif)
        /\ Len(concat_list_preview_gif) <= Len(concat_list_preview)

\* How often a line occurs in a playlist.
Occurrences(lines, l) == Cardinality({ i \in 1..Len(lines) : lines[i] = l })

SubPlaylist(part, whole) ==
    \A l \in Range(part) : Occurrences(part, l) <= Occurrences(whole, l)

\* The first two and the last two lines of a playlist.
EndLines(lines) ==
    { lines[i] : i \in {1, 2, Len(lines) - 1, Len(lines)} \cap (1..Len(lines)) }

TrimmedAsSpecified(lines, target, out) ==
    /\ EndLines(lines) \subseteq Range(out)
    /\ Len(out) = target
    /\ SubPlaylist(out, lines)
    /\ Ascending(Indexes(out))

BadGrid(c) ==
    \/ c.grid_width = 3 /\ (c.num_of_segments % 3 # 0 \/ c.num_of_segments < 9
                            \/ c.num_of_segments > 30)
    \/ c.grid_width = 4 /\ (c.num_of_segments % 4 # 0 \/ c.num_of_segments < 12
                            \/ c.num_of_segments > 28)

BadGif(c) == c.number_of_segments_gif <= 0 \/ c.number_of_segments_gif > c.num_of_segments

SheetEnabled(c) == c.create \cap SheetFormats # {}

Rejected == pc = "done" /\ result = "False"

\* C9 as claimed: whatever formats are enabled, a bad grid and segment-count
\* combination and a gif-subset size out of range are rejected.
C9_RejectsAsClaimed ==
    (pc # "start" /\ (BadGrid(cfg) \/ BadGif(cfg))) => Rejected

\* C9 amended: a gif-subset size of 0 or less or above n is rejected whatever formats
\* are enabled; grid 3 with n not divisible by 3, n < 9 or n > 30 and grid 4 with n not
\* divisible by 4, n < 12 or n > 28 are rejected when a sheet format is enabled.
C9_RejectsWhenSheetEnabled ==
    (pc # "start" /\ (BadGif(cfg) \/ (SheetEnabled(cfg) /\ BadGrid(cfg)))) => Rejected

\* A count within 9..30 that 3 does not divide was rejected for a grid of 3.
C9_Witness ==
    /\ Rejected /\ ~BadGif(cfg) /\ SheetEnabled(cfg)
    /\ cfg.grid_width = 3 /\ cfg.num_of_segments = 10

NothingTouched == ~hist.external_calls /\ ~hist.files_changed

\* C10 as claimed: with a bad grid and segment-count combination or a gif-subset size
\* out of range, create_preview_tool reports failure and no external tool has been
\* invoked and no file created or deleted.
C10_InvalidFailsFirstAsClaimed ==
    (BadGrid(cfg) \/ BadGif(cfg)) =>
        (NothingTouched /\ (pc # "start" => Rejected))

\* C10 amended: for a file that is not excluded and a configuration the validation
\* rejects (gif-subset size out of range, or a bad grid and segment-count combination
\* with a sheet format enabled), create_preview_tool returns False and no external tool
\* has been invoked and no file created or deleted.
C10_RejectedFailsFirst ==
    (~cfg.excluded /\ (BadGif(cfg) \/ (SheetEnabled(cfg) /\ BadGrid(cfg)))) =>
        (NothingTouched /\ (pc # "start" => Rejected))

\* A run with a sheet enabled and 3 segments was rejected with nothing touched.
C10_Witness ==
    /\ Rejected /\ ~cfg.excluded /\ ~BadGif(cfg)
    /\ SheetEnabled(cfg) /\ BadGrid(cfg) /\ NothingTouched

PlannerPositions == {"loop_top", "draw", "confirm", "probe_scene"}

\* C11: a source shorter than the 150 s floor never has a scene probed or a segment
\* extracted, and once its duration is checked process_video has returned False; a
\* source longer than the floor is in the planner, or past it, once its duration is
\* checked.
C11_DurationFloor ==
    /\ env.duration < required_duration =>
          /\ ~hist.scene_probed /\ hist.extract_calls = 0
          /\ pc \notin PlannerPositions
          /\ hist.duration_checked => Rejected
    /\ (env.duration > required_duration /\ hist.duration_checked) =>
          (pc \in PlannerPositions \/ hist.scene_probed)

\* A 140 s source was rejected at the duration check, nothing probed or extracted.
C11_Witness ==
    /\ env.duration = 140 /\ hist.duration_checked /\ Rejected
    /\ ~hist.scene_probed /\ hist.extract_calls = 0

\* C12: a run in which the concatenation, a transcode, a row stack, the final stack or
\* the downscale exited non-zero does not return success.
C12_FailedCommandFailsRun ==
    (pc = "done" /\ hist.command_failed) => result # "True"

RunFailed == pc = "done" /\ result \in {"False", "raised"}

\* C13: a run that ended in failure has none of its artifacts at a final path, and an
\* artifact of the run at its final path went through every step of its chain.
C13_NoPartialResult ==
    /\ RunFailed => hist.written \cap artifacts = {}
    /\ (hist.written \cap artifacts) \subseteq hist.completed

\* C14: when process_video has returned after the scratch directory was created, the
\* directory is gone unless temporary files are kept.
C14_ScratchRemoved ==
    (pc = "done" /\ hist.scratch_created /\ ~cfg.keep_temp_files) => ~temp_folder

EverythingExists == ~cfg.overwrite_existing /\ cfg.create # {} /\ cfg.create \subseteq env.existing

NoOp ==
    /\ ~hist.external_calls /\ ~hist.files_changed
    /\ artifacts = env.existing
    /\ pc = "done" => result = "True"

C16_AcceptedSet ==
    pc \in {"confirm", "probe_scene"} =>
        /\ Len(sorted_points) = cfg.num_of_segments
        /\ StrictlyIncreasing(sorted_points)
        /\ \A i \in 1..Len(sorted_points) : 0 < sorted_points[i] /\ sorted_points[i] < 1000
        /\ Range(sorted_points) \cap cfg.blacklisted_cut_points = {}

\* C17: generate_cut_points eventually hands an accepted set to extraction or ends in
\* the generation-exhausted failure.
C17_PlannerEnds == <>(pc \in {"extract", "done"})

\* C18: the segment duration has been reduced by 0.1 s at most once for each 50 counted
\* failures, it is the initial duration less 0.1 s for each reduction, and it is never
\* below the 0.1 s floor.
C18_OneReductionPerFifty ==
    pc \in PlannerPositions \cup {"after_loop"} =>
        /\ hist.reductions <= calc_failed_counter \div FailuresPerReduction
        /\ segment_cut_duration = cfg.segment_duration - DurationStep * hist.reductions
        /\ segment_cut_duration >= DurationFloor

\* C19: every discard of a candidate set, by a scene change or by the user's rejection,
\* adds one to the failure counter.
C19_EveryDiscardCounted ==
    [][((pc = "probe_scene" \/ pc = "confirm") /\ pc' = "loop_top")
          => calc_failed_counter' = calc_failed_counter + 1]_vars

\* The sets that one pass of candidate generation can give.
WholeDraws ==
    { SortedSeq(candidate_points(cfg, start_point,
                                 end_point_of(cfg, env.duration, drawn_end), a, js)) :
        start_point \in {StartLow, StartHigh}, drawn_end \in {EndLow, EndHigh},
        a \in jitter_starts(cfg.num_of_segments, env.jittered),
        js \in [0..(env.jittered - 1) -> {0 - MaxJitter, 0, MaxJitter}] }

\* C20: a set is at extraction only when the detector reported no change at any of
\* its points; a discard for a scene change goes back to the top of the loop and starts
\* no extraction; and every set that is probed comes whole from a new draw of start,
\* end and interior points.
C20_AllOrNothing ==
    /\ [](pc = "extract" => hist.last_probe = 0)
    /\ [][(pc = "probe_scene" /\ hist'.last_probe # 0) =>
             /\ pc' = "loop_top"
             /\ hist'.extract_calls = hist.extract_calls
             /\ temp_files_webp' = temp_files_webp]_vars
    /\ [][(pc # "probe_scene" /\ pc' = "probe_scene") =>
             (pc = "draw" /\ sorted_points' \in WholeDraws)]_vars

\* A set was discarded for a change at its second point, and the set now handed to
\* extraction differs from it in its start, its end and its interior point.
C20_Witness ==
    /\ pc = "extract" /\ cfg.num_of_segments = 3
    /\ hist.discarded_at = 2 /\ hist.last_probe = 0
    /\ \A i \in 1..3 : sorted_points[i] # hist.discarded[i]

\* The stage of the state machine per video that a position belongs to: 1 PLANNING,
\* 2 VALIDATING, 3 EXTRACTING, 4 FILTERING, 5 ASSEMBLING, 6 DONE; 0 before planning.
Stage ==
    IF pc \in {"loop_top", "draw", "confirm", "after_loop"} THEN 1
    ELSE IF pc = "probe_scene" THEN 2
    ELSE IF pc = "extract" THEN 3
    ELSE IF pc = "write_concat" THEN 4
    ELSE IF pc \in {"assemble", "sheet"} THEN 5
    ELSE IF pc = "done" THEN 6
    ELSE 0

\* C21: the stages never go backwards except from VALIDATING to PLANNING, and once an
\* extraction call has been made no new cut points are drawn and no scene is probed.
C21_StagesInOrder ==
    /\ [][Stage' >= Stage \/ (Stage = 2 /\ Stage' = 1)]_vars
    /\ [][hist.extract_calls > 0 => pc \notin {"draw", "probe_scene"}]_vars

\* C22: with interactive confirmation enabled, a set shown to the user for confirmation
\* has already been probed with no scene change reported at any of its points, and a
\* set the user has confirmed is the set handed to extraction.
C22_ConfirmsAcceptedSet ==
    /\ [](pc = "confirm" => (hist.scene_probed /\ hist.last_probe = 0))
    /\ [][(cfg.confirm_cut_points_required /\ pc = "probe_scene") =>
             (pc' = "extract" /\ sorted_points' = sorted_points)]_vars

\* The cut points that have a line of the given kind in a playlist.
CutPointsOf(lines, kind) == { lines[i].cp : i \in { k \in 1..Len(lines) : lines[k].kind = kind } }

\* C23: when a sheet has been assembled, in every timestamp mode the sheet playlist
\* holds only timestamp-tagged segments, exactly one for each cut point whose segment
\* survived extraction.
C23_SheetPlaylistTagged ==
    hist.sheet_built =>
        /\ \A l \in Range(concat_list_sheet) : l.kind = "timestamped"
        /\ NoRepeat(Indexes(concat_list_sheet))
        /\ CutPointsOf(concat_list_sheet, "timestamped") = CutPointsOf(concat_list, "seg")

\* C24: when a sheet has been assembled, its header clip has the duration of the
\* segments that were extracted, which is the duration the planner ended with: the
\* configured one less 0.1 s for each reduction.
C24_HeaderMatchesSegments ==
    hist.sheet_built =>
        /\ hist.header_duration = segment_cut_duration
        /\ hist.header_duration = cfg.segment_duration - DurationStep * hist.reductions

\* C25: the single-strip assembler starts a transcode only for an enabled format, the
\* gif-subset playlist is built only when the animated format is enabled and the
\* gif-subset size differs from the segment count, and the gif intermediate clip is
\* built only when the animated format is enabled and the gif-subset playlist differs
\* from the full playlist.
C25_NoWorkForDisabled ==
    /\ (hist.commands \cap Formats) \subseteq create
    /\ hist.trim_called =>
          ("gif" \in create /\ cfg.number_of_segments_gif # cfg.num_of_segments)
    /\ "concat_gif" \in hist.commands =>
          ("gif" \in create /\ concat_list_preview_gif # concat_list_preview)

\* The frames pasted into the cells of a sheet, in cell order.
PastedFrames(pasted) == [i \in 1..Len(pasted) |-> pasted[i].frame]

AlternateRun ==
    /\ thumbs_out.ran /\ thumbs_in.alternate_layout /\ ~thumbs_in.fewer_rows
    /\ thumbs_in.columns >= 3 /\ thumbs_in.frames >= 2

\* C26: in alternate layout with g >= 3 columns and at least two frames a sheet is
\* saved, also when there are no more frames than cells; the first frame is kept and
\* drawn enlarged in the top-left cell, the last frame is kept, the kept frames are in
\* ascending index order, g*g-3 frames follow the first one when there are more frames
\* than that, and every kept frame, the last one included, is pasted into a cell.
C26_AlternateLayout ==
    AlternateRun =>
        /\ thumbs_out.saved
        /\ thumbs_out.image_files[1] = 1
        /\ thumbs_out.image_files[Len(thumbs_out.image_files)] = thumbs_in.frames
        /\ StrictlyIncreasing(thumbs_out.image_files)
        /\ Len(thumbs_out.image_files) - 1 =
              Min(thumbs_in.frames - 1, thumbs_in.columns * thumbs_in.columns - 3)
        /\ thumbs_out.pasted[1].large /\ thumbs_out.pasted[1].frame = 1
        /\ thumbs_out.pasted[1].row = 0 /\ thumbs_out.pasted[1].col = 0
        /\ PastedFrames(thumbs_out.pasted) = thumbs_out.image_files

\* C27: under a configuration that the validation accepts, building the playlists, the
\* gif-subset included, has not raised, whether or not the gif is enabled.
C27_GifSubsetNeverRaises ==
    (is_valid(cfg) /\ hist.filtered) => result # "raised"

\* The lines of a playlist that name no file: the placeholder left by a failed overlay.
Placeholders(lines) == { i \in 1..Len(lines) : lines[i].kind = "none" }

\* C28: no line of the concat list or of the full, gif-subset or sheet playlist is a
\* placeholder: every line names the file of an extracted segment or of its tagged copy.
C28_NoPlaceholderEntries ==
    /\ Placeholders(concat_list) = {}
    /\ Placeholders(concat_list_preview) = {}
    /\ Placeholders(concat_list_preview_gif) = {}
    /\ Placeholders(concat_list_sheet) = {}

\* C29: when a sheet has been assembled under a validated configuration, every row
\* batch given to horizontal stacking has exactly grid-width segments, and no row whose
\* stacking failed is among the rows given to vertical stacking.
C29_RowBatchesWhole ==
    (hist.sheet_built /\ is_valid(cfg)) =>
        /\ \A b \in 1..Len(video_groups) : Len(video_groups[b]) = cfg.grid_width
        /\ hist.failed_rows \cap Range(hist.intermediate_files) = {}

\* C30: when process_video has returned False, every artifact that was at its final
\* path before the run is still there.
C30_PriorArtifactsSurviveFailure ==
    Rejected => env.existing \subseteq artifacts

====
